---- MODULE Spec2Model ----
(***************************************************************************)
(* Lyric text normalisation and tokenisation (acestep lyrics_utils).       *)
(*                                                                         *)
(* Texts are TLA+ strings; a character is a string of length 1.  Python    *)
(* exceptions are modelled by result records [err, val]: err = "none" is a *)
(* normal return of val, any other err names the exception raised.         *)
(***************************************************************************)
EXTENDS Integers, Sequences, FiniteSets, TLC

VARIABLES
    entry,   \* the function the caller invoked
    arg,     \* the argument it was invoked with
    pc,      \* position inside the running function
    text,    \* the local "text"/"txt" of the rewrite pipeline
    ntext,   \* the local "text" of TextNorm.__call__
    out,     \* the value returned (or the exception raised) to the caller
    pass,    \* LyricNormalizer: which of two successive normalize calls runs
    first,   \* LyricNormalizer: the result of the first normalize call
    faults,  \* expansion steps of multilingual_cleaners whose try block raised
    canon    \* the text preprocess_text returned to encode

vars == <<entry, arg, pc, text, ntext, out, pass, first, faults, canon>>

(***************************************************************************)
(* Bounds of the explored inputs.                                          *)
(***************************************************************************)
MaxDigits == 3      \* digit strings of every length up to this are converted
MaxNumPieces == 3   \* numeral-engine texts are built from up to this many pieces
MaxNormPieces == 3  \* normalizer texts are built from up to this many pieces
MaxPieces == 2      \* lyric texts are built from up to this many pieces

(***************************************************************************)
(* Characters and Python string primitives.                                *)
(***************************************************************************)
\* the characters of s at indices i..j (1-based), as far as s has them
Slice(s, i, j) ==
    IF i < 1 \/ i > j \/ i > Len(s) THEN ""
    ELSE SubSeq(s, i, IF j > Len(s) THEN Len(s) ELSE j)

\* the character at index i, "" outside the string
Ch(s, i) == Slice(s, i, i)

Ok(v) == [err |-> "none", val |-> v]
Raise(e) == [err |-> e, val |-> ""]

(***************************************************************************)
(* Characters outside ASCII are written with ASCII stand-ins that no       *)
(* pattern or table of the modelled functions names; each keeps the        *)
(* classes of the character it stands for (Devanagari, Emoticons,          *)
(* WordChars, the tables below).                                           *)
(***************************************************************************)
INDIAN_RUPEE_SIGN == "^"   \* U+20B9
POUND_SIGN == "\\"         \* U+00A3
DEGREE_SIGN == "*"         \* U+00B0
DEVANAGARI_HA == "|"       \* U+0939, a letter of the block U+0900..U+097F
GRINNING_FACE == "/"       \* U+1F600, in the emoticon block U+1F600..U+1F64F
ELLIPSIS == "'"            \* U+2026
FW_COMMA == "<"            \* U+FF0C
FW_STOP == ">"             \* U+3002
FW_EXCLAMATION == "{"      \* U+FF01
FW_QUESTION == "}"         \* U+FF1F
FW_SEMICOLON == "("        \* U+FF1B
FW_COLON == ")"            \* U+FF1A
FW_SPACE == "\f"           \* U+3000, whitespace like its stand-in

Digit == {"0", "1", "2", "3", "4", "5", "6", "7", "8", "9"}
Space == {" ", "\t", "\n"}
UpperChars == "ABCDEFGHIJKLMNOPQRSTUVWXYZ"
LowerChars == "abcdefghijklmnopqrstuvwxyz"

DigitVal(c) == CHOOSE v \in 0..9 : Ch("0123456789", v + 1) = c

AllDigits(s) == \A i \in 1..Len(s) : Ch(s, i) \in Digit

RECURSIVE IntOf(_)
IntOf(s) ==
    IF Len(s) = 0 THEN 0
    ELSE 10 * IntOf(Slice(s, 1, Len(s) - 1)) + DigitVal(Ch(s, Len(s)))

\* int(s): ValueError unless s is a non-empty run of digits
IntLiteral(s) == Len(s) > 0 /\ AllDigits(s)

RECURSIVE str(_)
str(n) ==
    IF n < 10 THEN Ch("0123456789", n + 1)
    ELSE str(n \div 10) \o Ch("0123456789", (n % 10) + 1)

RECURSIVE Join(_, _)
Join(words, sep) ==
    IF Len(words) = 0 THEN ""
    ELSE IF Len(words) = 1 THEN words[1]
    ELSE words[1] \o sep \o Join(Tail(words), sep)

RECURSIVE Remove(_, _)
Remove(s, c) ==
    IF Len(s) = 0 THEN ""
    ELSE (IF Ch(s, 1) = c THEN "" ELSE Ch(s, 1)) \o Remove(Slice(s, 2, Len(s)), c)

RECURSIVE LStrip(_)
LStrip(s) ==
    IF Len(s) > 0 /\ Ch(s, 1) \in Space THEN LStrip(Slice(s, 2, Len(s))) ELSE s

RECURSIVE RStrip(_)
RStrip(s) ==
    IF Len(s) > 0 /\ Ch(s, Len(s)) \in Space THEN RStrip(Slice(s, 1, Len(s) - 1)) ELSE s

Strip(s) == RStrip(LStrip(s))

RECURSIVE SplitOn(_, _, _)
SplitOn(s, c, cur) ==
    IF Len(s) = 0 THEN <<cur>>
    ELSE IF Ch(s, 1) = c THEN <<cur>> \o SplitOn(Slice(s, 2, Len(s)), c, "")
    ELSE SplitOn(Slice(s, 2, Len(s)), c, cur \o Ch(s, 1))

Split(s, c) == SplitOn(s, c, "")

RECURSIVE FilterDigits(_)
FilterDigits(s) ==
    IF Len(s) = 0 THEN ""
    ELSE (IF Ch(s, 1) \in Digit THEN Ch(s, 1) ELSE "") \o FilterDigits(Slice(s, 2, Len(s)))

\* the index after the longest run of characters of class cls starting at i
RECURSIVE RunEnd(_, _, _)
RunEnd(s, i, cls) ==
    IF i <= Len(s) /\ Ch(s, i) \in cls THEN RunEnd(s, i + 1, cls) ELSE i

StartsAt(s, i, w) == i + Len(w) - 1 <= Len(s) /\ Slice(s, i, i + Len(w) - 1) = w

(***************************************************************************)
(* hi_num2words.py: lexicon tables.                                        *)
(***************************************************************************)
HINDI_NUMBERS ==
    [k \in {"0", "1", "2", "3", "4", "5", "6", "7", "8", "9", "10", "11", "12",
            "13", "14", "15", "16", "17", "18", "19", "20", "21", "22", "23",
            "24", "25", "26", "27", "28", "29", "30", "40", "50", "60", "70",
            "80", "90", "100", "1000", "100000", "10000000"} |->
     CASE k = "0" -> "zero"       [] k = "1" -> "ek"
       [] k = "2" -> "do"         [] k = "3" -> "teen"
       [] k = "4" -> "char"       [] k = "5" -> "paanch"
       [] k = "6" -> "che"        [] k = "7" -> "saat"
       [] k = "8" -> "aath"       [] k = "9" -> "nau"
       [] k = "10" -> "das"       [] k = "11" -> "gyarah"
       [] k = "12" -> "barah"     [] k = "13" -> "terah"
       [] k = "14" -> "chaudah"   [] k = "15" -> "pandrah"
       [] k = "16" -> "solah"     [] k = "17" -> "satrah"
       [] k = "18" -> "atharah"   [] k = "19" -> "unnees"
       [] k = "20" -> "bees"      [] k = "21" -> "ikkees"
       [] k = "22" -> "baaees"    [] k = "23" -> "teyees"
       [] k = "24" -> "chaubees"  [] k = "25" -> "pachees"
       [] k = "26" -> "chhabbees" [] k = "27" -> "sattaees"
       [] k = "28" -> "athaees"   [] k = "29" -> "unattees"
       [] k = "30" -> "tees"      [] k = "40" -> "chalees"
       [] k = "50" -> "pachas"    [] k = "60" -> "saath"
       [] k = "70" -> "sattar"    [] k = "80" -> "assi"
       [] k = "90" -> "navve"     [] k = "100" -> "sau"
       [] k = "1000" -> "hazaar"  [] k = "100000" -> "lakh"
       [] k = "10000000" -> "crore"]

CURRENCY_UNITS ==
    [c \in {"INR", "USD", "GBP"} |->
     CASE c = "INR" -> [main |-> "rupaye", decimal |-> "paise", symbol |-> INDIAN_RUPEE_SIGN]
       [] c = "USD" -> [main |-> "dollar", decimal |-> "cents", symbol |-> "$"]
       [] c = "GBP" -> [main |-> "pound", decimal |-> "pence", symbol |-> POUND_SIGN]]

ORDINAL_SUFFIXES ==
    [k \in {"1", "2", "3", "4", "5", "6", "7", "8", "9", "10"} |->
     CASE k = "1" -> "pehla"    [] k = "2" -> "doosra"
       [] k = "3" -> "teesra"   [] k = "4" -> "chautha"
       [] k = "5" -> "paanchva" [] k = "6" -> "chatha"
       [] k = "7" -> "saatva"   [] k = "8" -> "aathva"
       [] k = "9" -> "nauva"    [] k = "10" -> "dasva"]

(***************************************************************************)
(* hi_num2words.py: TextNorm.normalize_number and its variants.            *)
(***************************************************************************)
\* mutant: only values below one hundred are returned directly
DirectEntry_BelowHundred(num) == num < 100 /\ str(num) \in DOMAIN HINDI_NUMBERS

\* line 112: the value itself is a key of the lexicon
DirectEntry(num) == str(num) \in DOMAIN HINDI_NUMBERS

RECURSIVE normalize_number(_)

\* lines 120-123 (and 129-132, 138-141): the count of a scale, then its word
ScaleGroup(count, scale) ==
    (IF str(count) \in DOMAIN HINDI_NUMBERS
     THEN HINDI_NUMBERS[str(count)]
     ELSE normalize_number(str(count)).val) \o " " \o scale

\* lines 151-160: the remainder below one hundred
TwoDigits(num) ==
    IF num <= 0 THEN <<>>
    ELSE IF str(num) \in DOMAIN HINDI_NUMBERS THEN <<HINDI_NUMBERS[str(num)]>>
    ELSE (IF (num \div 10) * 10 > 0
          THEN <<HINDI_NUMBERS[str((num \div 10) * 10)]>> ELSE <<>>)
         \o (IF num % 10 > 0 THEN <<HINDI_NUMBERS[str(num % 10)]>> ELSE <<>>)

\* lines 145-148: the hundreds digit and the word "sau"
Hundreds(num) ==
    IF num \div 100 > 0 THEN <<HINDI_NUMBERS[str(num \div 100)] \o " sau">> ELSE <<>>

\* the scales of lines 118, 127 and 136, in the order the code divides by them
SCALES ==
    <<[unit |-> 10000000, word |-> "crore"],
      [unit |-> 100000, word |-> "lakh"],
      [unit |-> 1000, word |-> "hazaar"]>>

\* lines 115-160: the word list, from scale k on, of what is left of the number
RECURSIVE Words(_, _)
Words(num, k) ==
    IF k > Len(SCALES)
    THEN Hundreds(num) \o TwoDigits(IF num \div 100 > 0 THEN num % 100 ELSE num)
    ELSE IF num \div SCALES[k].unit > 0
         THEN <<ScaleGroup(num \div SCALES[k].unit, SCALES[k].word)>>
              \o Words(num % SCALES[k].unit, k + 1)
         ELSE Words(num, k + 1)

normalize_number(number_str) ==
    IF ~IntLiteral(number_str) THEN Raise("ValueError")
    ELSE IF IntOf(number_str) = 0 THEN Ok(HINDI_NUMBERS["0"])
    ELSE IF DirectEntry(IntOf(number_str)) THEN Ok(HINDI_NUMBERS[str(IntOf(number_str))])
    ELSE Ok(Join(Words(IntOf(number_str), 1), " "))

RECURSIVE SpellDigits(_)
SpellDigits(decimal) ==
    IF Len(decimal) = 0 THEN <<>>
    ELSE <<HINDI_NUMBERS[Ch(decimal, 1)]>> \o SpellDigits(Slice(decimal, 2, Len(decimal)))

normalize_decimal(decimal_str) ==
    LET parts == Split(decimal_str, ".")
        whole == parts[1]
        decimal == IF Len(parts) > 1 THEN parts[2] ELSE "0"
        result == normalize_number(whole)
    IN IF result.err # "none" THEN result
       ELSE IF decimal # "0"
            THEN Ok(result.val \o " point " \o Join(SpellDigits(decimal), " "))
            ELSE result

\* lines 179-180: every currency symbol removed, the rest stripped
StripSymbols(amount_str) ==
    Strip(Remove(Strip(Remove(Strip(Remove(amount_str, CURRENCY_UNITS["INR"].symbol)),
                              CURRENCY_UNITS["USD"].symbol)),
                 CURRENCY_UNITS["GBP"].symbol))

normalize_currency(amount_str) ==
    LET parts == Split(StripSymbols(amount_str), ".")
        main_unit == parts[1]
        decimal_unit == IF Len(parts) > 1 THEN parts[2] ELSE "0"
        currency == CURRENCY_UNITS["INR"]
        main == normalize_number(main_unit)
        dec == normalize_number(decimal_unit)
    IN IF main.err # "none" THEN main
       ELSE IF decimal_unit # "0"
            THEN IF dec.err # "none" THEN dec
                 ELSE Ok(main.val \o " " \o currency.main \o " "
                         \o dec.val \o " " \o currency.decimal)
            ELSE Ok(main.val \o " " \o currency.main)

normalize_ordinal(ordinal_str) ==
    LET num == FilterDigits(ordinal_str)
        card == normalize_number(num)
    IN IF num \in DOMAIN ORDINAL_SUFFIXES THEN Ok(ORDINAL_SUFFIXES[num])
       ELSE IF card.err # "none" THEN card
       ELSE Ok(card.val \o "va")

(***************************************************************************)
(* hi_num2words.py: the four patterns.  Each gives, for a text and a start *)
(* index, the index after the match that starts there, or 0 for no match.  *)
(***************************************************************************)
\* \d+(st|nd|rd|th)
ORDINAL_PATTERN(s, i) ==
    LET j == RunEnd(s, i, Digit)
    IN IF j > i /\ \E suf \in {"st", "nd", "rd", "th"} : StartsAt(s, j, suf)
       THEN j + 2 ELSE 0

\* [\u20B9$\u00A3]\s*\d+(:?\.\d{2})?
CURRENCY_PATTERN(s, i) ==
    LET k == RunEnd(s, i + 1, Space)
        j == RunEnd(s, k, Digit)
        c == IF Ch(s, j) = ":" THEN j + 1 ELSE j
    IN IF Ch(s, i) \in {INDIAN_RUPEE_SIGN, "$", POUND_SIGN} /\ j > k
       THEN IF Ch(s, c) = "." /\ Ch(s, c + 1) \in Digit /\ Ch(s, c + 2) \in Digit
            THEN c + 3 ELSE j
       ELSE 0

\* \d*\.\d+
DECIMAL_PATTERN(s, i) ==
    LET j == RunEnd(s, i, Digit)
    IN IF Ch(s, j) = "." /\ Ch(s, j + 1) \in Digit
       THEN RunEnd(s, j + 1, Digit) ELSE 0

\* \d+
NUMBER_PATTERN(s, i) ==
    LET j == RunEnd(s, i, Digit) IN IF j > i THEN j ELSE 0

MatchEnd(pat, s, i) ==
    CASE pat = "ORDINAL" -> ORDINAL_PATTERN(s, i)
      [] pat = "CURRENCY" -> CURRENCY_PATTERN(s, i)
      [] pat = "DECIMAL" -> DECIMAL_PATTERN(s, i)
      [] pat = "NUMBER" -> NUMBER_PATTERN(s, i)

\* the lambda handed to Pattern.sub in __call__
Callback(pat, m) ==
    CASE pat = "ORDINAL" -> normalize_ordinal(m)
      [] pat = "CURRENCY" -> normalize_currency(m)
      [] pat = "DECIMAL" -> normalize_decimal(m)
      [] pat = "NUMBER" -> normalize_number(m)

\* Pattern.sub: leftmost non-overlapping matches, replacements not rescanned;
\* an exception in the callback leaves sub by that exception
RECURSIVE SubFrom(_, _, _, _)
SubFrom(pat, s, i, acc) ==
    IF i > Len(s) THEN Ok(acc)
    ELSE LET j == MatchEnd(pat, s, i)
             r == Callback(pat, Slice(s, i, j - 1))
         IN IF j = 0 THEN SubFrom(pat, s, i + 1, acc \o Ch(s, i))
            ELSE IF r.err # "none" THEN r
            ELSE SubFrom(pat, s, j, acc \o r.val)

PatternSub(pat, s) == SubFrom(pat, s, 1, "")

HasDigit(s) == \E i \in 1..Len(s) : Ch(s, i) \in Digit

\* the case mappings of the ASCII letters
ToLower == [c \in {Ch(UpperChars, k) : k \in 1..26} |->
               Ch(LowerChars, CHOOSE k \in 1..26 : Ch(UpperChars, k) = c)]
ToUpper == [c \in {Ch(LowerChars, k) : k \in 1..26} |->
               Ch(UpperChars, CHOOSE k \in 1..26 : Ch(LowerChars, k) = c)]

RECURSIVE MapChars(_, _)
MapChars(s, map) ==
    IF Len(s) = 0 THEN ""
    ELSE (IF Ch(s, 1) \in DOMAIN map THEN map[Ch(s, 1)] ELSE Ch(s, 1))
         \o MapChars(Slice(s, 2, Len(s)), map)

\* str.lower / str.upper
lower(s) == MapChars(s, ToLower)
upper(s) == MapChars(s, ToUpper)

\* hi_num2words.py lines 93-96: the constructor defaults, which every caller
\* in the repository uses (TextNorm() and hi_num2words())
to_upper == FALSE
to_lower == FALSE
remove_space == FALSE

\* lines 230-244: the transformations after the four substitutions
Transforms(s) ==
    LET u == IF to_upper THEN upper(s) ELSE s
        l == IF to_lower THEN lower(u) ELSE u
    IN IF remove_space THEN Remove(l, " ") ELSE l

(***************************************************************************)
(* Input sets.                                                             *)
(***************************************************************************)
\* every concatenation of at most n pieces
RECURSIVE Texts(_, _)
Texts(pieces, n) ==
    IF n = 0 THEN {""}
    ELSE LET shorter == Texts(pieces, n - 1)
         IN shorter \cup {t \o p : t \in shorter, p \in pieces}

DigitStrings(n) == Texts(Digit, n) \ {""}

\* the inputs of test_number_conversion (lines 250-263)
TestInputs ==
    {"0", "1", "10", "21", "100", "1000", "100000", "10000000", "1234567",
     INDIAN_RUPEE_SIGN \o "1234.56", "1st", "22nd"}

NumberArgs ==
    DigitStrings(MaxDigits)
    \cup {"", "1000", "100000", "10000000", "1234567", "310000000", "1234567890"}

OrdinalArgs ==
    {d \o suf : d \in DigitStrings(2), suf \in {"st", "nd", "rd", "th"}}

CurrencyArgs ==
    {sym \o d \o frac : sym \in {INDIAN_RUPEE_SIGN, "$", POUND_SIGN, INDIAN_RUPEE_SIGN \o " "},
                        d \in {"5", "12", "1234", "0"},
                        frac \in {"", ".00", ".56", ".05", ":.50"}}

DecimalArgs ==
    {w \o "." \o f : w \in {"", "0", "3", "12"}, f \in DigitStrings(2)}

NumPieces == {"1", "22", "0", "st", "nd", "th", INDIAN_RUPEE_SIGN, ".", "56", " ", "x"}

TextNormArgs == TestInputs \cup Texts(NumPieces, MaxNumPieces)

(***************************************************************************)
(* lyric_tokenizer.py lines 159-169: the generic expanders that follow the *)
(* numeral engine in expand_numbers_multilingual.  Every one of their      *)
(* patterns needs a digit; num2words is a third-party library, so a digit  *)
(* run it would convert is replaced by one opaque word.                    *)
(***************************************************************************)
RECURSIVE ExpandRuns(_, _, _)
ExpandRuns(s, i, acc) ==
    IF i > Len(s) THEN acc
    ELSE LET j == RunEnd(s, i, Digit)
         IN IF j > i THEN ExpandRuns(s, j, acc \o "num2words")
            ELSE ExpandRuns(s, i + 1, acc \o Ch(s, i))

GenericExpanders(s) == IF HasDigit(s) THEN ExpandRuns(s, 1, "") ELSE s

(***************************************************************************)
(* State machine: the numeral engine.                                      *)
(***************************************************************************)
Idle ==
    /\ entry = "none" /\ arg = "" /\ pc = "idle" /\ text = "" /\ ntext = ""
    /\ out = Ok("") /\ pass = 0 /\ first = "" /\ faults = {} /\ canon = ""

\* a direct call of one of the conversion methods
Call(fn, a, r) ==
    /\ pc = "idle"
    /\ entry' = fn /\ arg' = a /\ out' = r /\ pc' = "done"
    /\ UNCHANGED <<text, ntext, pass, first, faults, canon>>

CallNormalizeNumber == \E a \in NumberArgs : Call("normalize_number", a, normalize_number(a))
CallNormalizeOrdinal == \E a \in OrdinalArgs : Call("normalize_ordinal", a, normalize_ordinal(a))
CallNormalizeCurrency == \E a \in CurrencyArgs : Call("normalize_currency", a, normalize_currency(a))
CallNormalizeDecimal == \E a \in DecimalArgs : Call("normalize_decimal", a, normalize_decimal(a))

\* TextNorm.__call__, lines 205-208
CallTextNorm ==
    /\ pc = "idle"
    /\ \E a \in TextNormArgs :
        /\ entry' = "TextNorm" /\ arg' = a /\ ntext' = a
        /\ IF a = "" THEN pc' = "done" /\ out' = Ok(a)
           ELSE pc' = "ordinals" /\ out' = out
    /\ UNCHANGED <<text, pass, first, faults, canon>>

\* mutant: no try block around expand_numbers_multilingual
NumRaise_Propagates(r) ==
    /\ ntext' = ntext
    /\ pc' = "done" /\ out' = r /\ UNCHANGED <<text, faults>>

\* __call__ leaves by an exception: to the caller of TextNorm, or into the
\* except clause of multilingual_cleaners (lyric_tokenizer.py lines 184-187)
NumRaise(r) ==
    /\ ntext' = ntext
    /\ IF entry = "TextNorm"
       THEN pc' = "done" /\ out' = r /\ UNCHANGED <<text, faults>>
       ELSE pc' = "abbreviations" /\ faults' = faults \cup {"numbers"}
            /\ UNCHANGED <<text, out>>

\* __call__ returns v: to the caller of TextNorm, or into
\* expand_numbers_multilingual (lyric_tokenizer.py lines 158-170, 185)
NumReturn(v) ==
    /\ ntext' = v
    /\ IF entry = "TextNorm"
       THEN pc' = "done" /\ out' = Ok(Transforms(v)) /\ UNCHANGED <<text, faults>>
       ELSE pc' = "abbreviations" /\ text' = GenericExpanders(Transforms(v))
            /\ UNCHANGED <<out, faults>>

NumStep(here, pat, next) ==
    /\ pc = here
    /\ LET r == PatternSub(pat, ntext)
       IN IF r.err # "none" THEN NumRaise(r)
          ELSE IF next = "return" THEN NumReturn(r.val)
          ELSE ntext' = r.val /\ pc' = next /\ UNCHANGED <<text, out, faults>>
    /\ UNCHANGED <<entry, arg, pass, first, canon>>

Ordinals == NumStep("ordinals", "ORDINAL", "currency")      \* lines 211-213
Currencies == NumStep("currency", "CURRENCY", "decimals")   \* lines 216-218
Decimals == NumStep("decimals", "DECIMAL", "numbers")       \* lines 221-223
Numbers == NumStep("numbers", "NUMBER", "return")           \* lines 226-244

NextNum ==
    \/ CallNormalizeNumber
    \/ CallNormalizeOrdinal
    \/ CallNormalizeCurrency
    \/ CallNormalizeDecimal
    \/ CallTextNorm
    \/ Ordinals
    \/ Currencies
    \/ Decimals
    \/ Numbers

SpecNum == Idle /\ [][NextNum]_vars

(***************************************************************************)
(* Properties of the numeral engine.                                       *)
(***************************************************************************)
Returned(fn, a) == pc = "done" /\ entry = fn /\ arg = a

C2_Cardinal1234567 ==
    Returned("normalize_number", "1234567")
        => out = Ok("barah lakh chautees hazaar paanch sau satsath")

\* C3: the numeral engine turns the rupee amount 1234.56 (U+20B9 "1234.56") into
\* "ek hazaar do sau chautees rupaye chhappan paise".
C3_Currency123456 ==
    Returned("TextNorm", INDIAN_RUPEE_SIGN \o "1234.56")
        => out = Ok("ek hazaar do sau chautees rupaye chhappan paise")

\* C4: the ordinal of "1st" is "pehla", and the ordinal of "22nd" is the
\* cardinal of 22 followed by "va", which is "baaesva".
C4_Ordinals ==
    /\ Returned("normalize_ordinal", "1st") => out = Ok("pehla")
    /\ Returned("normalize_ordinal", "22nd")
           => /\ out = Ok(normalize_number("22").val \o "va")
              /\ out = Ok("baaesva")

\* C5: the numeral engine turns exactly one scale value 100, 1000, 100000,
\* 10000000 into "ek" followed by the scale word.
C5_ScaleValues ==
    \A d \in {"100", "1000", "100000", "10000000"} :
        Returned("TextNorm", d) => out = Ok("ek " \o HINDI_NUMBERS[d])

Devanagari == {DEVANAGARI_HA}
Emoticons == {GRINNING_FACE}

CharsOf(s) == {Ch(s, k) : k \in 1..Len(s)}

\* \w: letters, digits and the underscore
WordChars == CharsOf(LowerChars) \cup CharsOf(UpperChars) \cup Digit \cup {"_"} \cup Devanagari

\* \b at index i: exactly one of the characters before and at i is a word character
Boundary(s, i) == (Ch(s, i - 1) \in WordChars) # (Ch(s, i) \in WordChars)

\* the first alternative of alts that matches at i between two \b, as the index
\* after it, or 0; fold is lower under re.IGNORECASE and the identity otherwise
RECURSIVE AltEnd(_, _, _, _, _)
AltEnd(s, i, alts, k, ignorecase) ==
    IF k > Len(alts) THEN 0
    ELSE IF /\ i + Len(alts[k]) - 1 <= Len(s)
            /\ (IF ignorecase THEN lower(Slice(s, i, i + Len(alts[k]) - 1))
                ELSE Slice(s, i, i + Len(alts[k]) - 1)) = alts[k]
            /\ Boundary(s, i + Len(alts[k]))
         THEN i + Len(alts[k])
         ELSE AltEnd(s, i, alts, k + 1, ignorecase)

\* re.sub(r'\b(a1|a2|...)\b', repl, s)
RECURSIVE SubWordsFrom(_, _, _, _, _, _)
SubWordsFrom(s, i, alts, repl, ignorecase, acc) ==
    IF i > Len(s) THEN acc
    ELSE IF Boundary(s, i) /\ AltEnd(s, i, alts, 1, ignorecase) > 0
         THEN SubWordsFrom(s, AltEnd(s, i, alts, 1, ignorecase), alts, repl,
                           ignorecase, acc \o repl)
         ELSE SubWordsFrom(s, i + 1, alts, repl, ignorecase, acc \o Ch(s, i))

SubWords(s, alts, repl, ignorecase) == SubWordsFrom(s, 1, alts, repl, ignorecase, "")

\* the index after the run of characters equal to c that starts at i
RECURSIVE SameEnd(_, _, _, _)
SameEnd(s, i, c, ignorecase) ==
    IF i <= Len(s) /\ (IF ignorecase THEN lower(Ch(s, i)) = lower(c) ELSE Ch(s, i) = c)
    THEN SameEnd(s, i + 1, c, ignorecase) ELSE i

\* re.sub(r'(.)\1{2,}', r'\1\1', s): "." matches every character but "\n"
RECURSIVE CollapseFrom(_, _, _, _)
CollapseFrom(s, i, ignorecase, acc) ==
    IF i > Len(s) THEN acc
    ELSE IF Ch(s, i) # "\n" /\ SameEnd(s, i, Ch(s, i), ignorecase) >= i + 3
         THEN CollapseFrom(s, SameEnd(s, i, Ch(s, i), ignorecase), ignorecase,
                           acc \o Ch(s, i) \o Ch(s, i))
         ELSE CollapseFrom(s, i + 1, ignorecase, acc \o Ch(s, i))

CollapseRepeats(s, ignorecase) == CollapseFrom(s, 1, ignorecase, "")

\* a table of word rules applied in order, each to the result of the one before
RECURSIVE ApplyRules(_, _, _, _)
ApplyRules(s, rules, k, ignorecase) ==
    IF k > Len(rules) THEN s
    ELSE ApplyRules(SubWords(s, rules[k].alts, rules[k].repl, ignorecase),
                    rules, k + 1, ignorecase)

(***************************************************************************)
(* lyric_normalizer.py                                                     *)
(***************************************************************************)
\* characters TRANSLATION_TABLE deletes, and those it turns into a space
TRANSLATION_DELETED ==
    {",", ".", FW_COMMA, FW_STOP, "!", FW_EXCLAMATION, "?", FW_QUESTION,
     ELLIPSIS, ";", FW_SEMICOLON, ":", FW_COLON}
TRANSLATION_SPACED == {"-", FW_SPACE}

RECURSIVE translate(_)
translate(s) ==
    IF Len(s) = 0 THEN ""
    ELSE (IF Ch(s, 1) \in TRANSLATION_DELETED THEN ""
          ELSE IF Ch(s, 1) \in TRANSLATION_SPACED THEN " " ELSE Ch(s, 1))
         \o translate(Slice(s, 2, Len(s)))

\* EMOJI_PATTERN.sub("", s)
RECURSIVE RemoveEmoji(_)
RemoveEmoji(s) ==
    IF Len(s) = 0 THEN ""
    ELSE (IF Ch(s, 1) \in Emoticons THEN "" ELSE Ch(s, 1))
         \o RemoveEmoji(Slice(s, 2, Len(s)))

\* "$": the end of the string, or just before a newline that ends it
AtDollar(s, i) == i = Len(s) + 1 \/ (i = Len(s) /\ Ch(s, i) = "\n")

\* SPACE_PATTERN (?<!^)\s+(?!$) at i: the longest part of the whitespace run
\* that does not start the string and does not end at "$"
SPACE_PATTERN(s, i) ==
    LET ends == {e \in (i + 1)..RunEnd(s, i, Space) : ~AtDollar(s, e)}
    IN IF i > 1 /\ ends # {} THEN CHOOSE e \in ends : \A f \in ends : f <= e ELSE 0

RECURSIVE CollapseSpaces(_, _, _)
CollapseSpaces(s, i, acc) ==
    IF i > Len(s) THEN acc
    ELSE IF SPACE_PATTERN(s, i) > 0
         THEN CollapseSpaces(s, SPACE_PATTERN(s, i), acc \o " ")
         ELSE CollapseSpaces(s, i + 1, acc \o Ch(s, i))

HINGLISH_PATTERNS ==
    <<[alts |-> <<"hai", "he", "hein">>, repl |-> "hai"],
      [alts |-> <<"me", "mei", "mein">>, repl |-> "mein"],
      [alts |-> <<"ko", "ku", "koo">>, repl |-> "ko"],
      [alts |-> <<"aur", "or", "arr">>, repl |-> "aur"],
      [alts |-> <<"nahi", "nhi", "nahin", "nay", "naa">>, repl |-> "nahi"],
      [alts |-> <<"kya", "kia", "kiya">>, repl |-> "kya"],
      [alts |-> <<"bohot", "bhot", "bahut", "bohut">>, repl |-> "bahut"],
      [alts |-> <<"pyar", "pyaar", "piyar">>, repl |-> "pyaar"],
      [alts |-> <<"wala", "vala", "walla">>, repl |-> "wala"],
      [alts |-> <<"kar", "kr">>, repl |-> "kar"],
      [alts |-> <<"acha", "accha", "achchha">>, repl |-> "accha"],
      [alts |-> <<"thik", "theek", "teek", "thek">>, repl |-> "theek"],
      [alts |-> <<"plz", "pls", "plij">>, repl |-> "please"],
      [alts |-> <<"u">>, repl |-> "you"],
      [alts |-> <<"nd", "n">>, repl |-> "and"]>>

\* lines 76-78
NUMBER_SUBSTITUTIONS ==
    <<[alts |-> <<"2">>, repl |-> "to"],
      [alts |-> <<"4">>, repl |-> "for"],
      [alts |-> <<"gr8", "gr8t">>, repl |-> "great"]>>

normalize_hinglish_text(s) ==
    ApplyRules(CollapseRepeats(ApplyRules(lower(s), HINGLISH_PATTERNS, 1, FALSE), FALSE),
               NUMBER_SUBSTITUTIONS, 1, FALSE)

(***************************************************************************)
(* State machine: LyricNormalizer.normalize, called on a text and then on  *)
(* its own result.                                                         *)
(***************************************************************************)
NormPieces == {"n", "a", "aa", "K", "2", " ", "\t", "-", ".", GRINNING_FACE}

NormArgs == Texts(NormPieces, MaxNormPieces)

CallNormalize ==
    /\ pc = "idle"
    /\ \E a \in NormArgs :
        entry' = "normalize" /\ arg' = a /\ text' = a
    /\ pass' = 1 /\ pc' = "translate"
    /\ UNCHANGED <<ntext, out, first, faults, canon>>

NormStep(here, result, next) ==
    /\ pc = here
    /\ text' = result /\ pc' = next
    /\ UNCHANGED <<entry, arg, ntext, out, pass, first, faults, canon>>

NormTranslate == NormStep("translate", translate(text), "emoji")         \* line 88
NormEmoji == NormStep("emoji", RemoveEmoji(text), "spaces")              \* line 91
NormSpaces == NormStep("spaces", CollapseSpaces(text, 1, ""), "strip")   \* line 94
NormStrip == NormStep("strip", Strip(text), "hinglish")                  \* line 97

\* lines 100-102: the first call returns and its result is normalized again;
\* the second call returns to the caller
NormHinglish ==
    /\ pc = "hinglish"
    /\ text' = normalize_hinglish_text(text)
    /\ IF pass = 1
       THEN first' = text' /\ pass' = 2 /\ pc' = "translate" /\ out' = out
       ELSE out' = Ok(text') /\ pc' = "done" /\ UNCHANGED <<first, pass>>
    /\ UNCHANGED <<entry, arg, ntext, faults, canon>>

NextNorm ==
    \/ CallNormalize
    \/ NormTranslate
    \/ NormEmoji
    \/ NormSpaces
    \/ NormStrip
    \/ NormHinglish

SpecNorm == Idle /\ [][NextNorm]_vars

\* C7: the pre-clean pass is idempotent: normalize applied to the result of
\* normalize returns that result unchanged.
C7_Idempotent == Returned("normalize", arg) => out = Ok(first)

(***************************************************************************)
(* lyric_tokenizer.py: hinglish_cleaners.                                  *)
(***************************************************************************)
\* re.sub(r'(\d+)' + suf, r'\1' + repl, s, flags=re.IGNORECASE)
RECURSIVE SubDigitSuffix(_, _, _, _, _)
SubDigitSuffix(s, i, suf, repl, acc) ==
    IF i > Len(s) THEN acc
    ELSE IF /\ RunEnd(s, i, Digit) > i
            /\ lower(Slice(s, RunEnd(s, i, Digit),
                            RunEnd(s, i, Digit) + Len(suf) - 1)) = suf
         THEN SubDigitSuffix(s, RunEnd(s, i, Digit) + Len(suf), suf, repl,
                             acc \o Slice(s, i, RunEnd(s, i, Digit) - 1) \o repl)
         ELSE SubDigitSuffix(s, i + 1, suf, repl, acc \o Ch(s, i))

\* lines 313-315; the rule of line 316 rewrites "th" to itself
OrdinalContractions(s) ==
    SubDigitSuffix(SubDigitSuffix(SubDigitSuffix(s, 1, "st", "first", ""),
                                  1, "nd", "second", ""),
                   1, "rd", "third", "")

\* lines 319-351
HINGLISH_CONTRACTIONS ==
    <<[alts |-> <<"hai", "he", "hein">>, repl |-> "hai"],
      [alts |-> <<"me", "mei", "mein">>, repl |-> "mein"],
      [alts |-> <<"ko", "ku", "koo">>, repl |-> "ko"],
      [alts |-> <<"aur", "or", "arr">>, repl |-> "aur"],
      [alts |-> <<"nahi", "nhi", "nahin", "nay", "naa">>, repl |-> "nahi"],
      [alts |-> <<"kya", "kia", "kiya">>, repl |-> "kya"],
      [alts |-> <<"bohot", "bhot", "bahut", "bohut">>, repl |-> "bahut"],
      [alts |-> <<"pyar", "pyaar", "piyar">>, repl |-> "pyaar"],
      [alts |-> <<"karna", "krna">>, repl |-> "karna"],
      [alts |-> <<"hona", "hna">>, repl |-> "hona"],
      [alts |-> <<"jana", "jna">>, repl |-> "jana"],
      [alts |-> <<"dena", "dna">>, repl |-> "dena"],
      [alts |-> <<"lena", "lna">>, repl |-> "lena"],
      [alts |-> <<"raha", "rha">>, repl |-> "raha"],
      [alts |-> <<"rahi", "rhi">>, repl |-> "rahi"],
      [alts |-> <<"rahe", "rhe">>, repl |-> "rahe"],
      [alts |-> <<"wala", "vala", "walla">>, repl |-> "wala"],
      [alts |-> <<"kar", "kr">>, repl |-> "kar"],
      [alts |-> <<"acha", "accha", "achchha">>, repl |-> "accha"],
      [alts |-> <<"thik", "theek", "teek", "thek">>, repl |-> "theek"],
      [alts |-> <<"plz", "pls", "plij">>, repl |-> "please"],
      [alts |-> <<"u">>, repl |-> "you"],
      [alts |-> <<"nd", "n">>, repl |-> "and"]>>

\* re.sub(r'(\w+)' + suf + r'\b', r'\1', s, flags=re.IGNORECASE): a run of
\* word characters that ends in suf after at least one other character
RECURSIVE StripSuffix(_, _, _, _)
StripSuffix(s, i, suf, acc) ==
    IF i > Len(s) THEN acc
    ELSE IF /\ RunEnd(s, i, WordChars) - i > Len(suf)
            /\ lower(Slice(s, RunEnd(s, i, WordChars) - Len(suf),
                            RunEnd(s, i, WordChars) - 1)) = suf
         THEN StripSuffix(s, RunEnd(s, i, WordChars), suf,
                          acc \o Slice(s, i, RunEnd(s, i, WordChars) - Len(suf) - 1))
         ELSE StripSuffix(s, i + 1, suf, acc \o Ch(s, i))

\* lines 366-368; the rule of line 369 rewrites "th" to itself
MIXED_NUMERALS ==
    <<[alts |-> <<"1st">>, repl |-> "first"],
      [alts |-> <<"2nd">>, repl |-> "second"],
      [alts |-> <<"3rd">>, repl |-> "third"]>>

hinglish_cleaners(s) ==
    ApplyRules(
        CollapseRepeats(
            StripSuffix(
                StripSuffix(
                    ApplyRules(OrdinalContractions(s), HINGLISH_CONTRACTIONS, 1, TRUE),
                    1, "wa", ""),
                1, "ji", ""),
            TRUE),
        MIXED_NUMERALS, 1, FALSE)

(***************************************************************************)
(* lyric_tokenizer.py: LyricTokenizer._handle_code_mixed.                  *)
(***************************************************************************)
\* str.split(): the maximal runs of non-whitespace characters
RECURSIVE SplitWords(_, _, _)
SplitWords(s, i, cur) ==
    IF i > Len(s) THEN (IF cur = "" THEN <<>> ELSE <<cur>>)
    ELSE IF Ch(s, i) \in Space
         THEN (IF cur = "" THEN <<>> ELSE <<cur>>) \o SplitWords(s, i + 1, "")
         ELSE SplitWords(s, i + 1, cur \o Ch(s, i))

split(s) == SplitWords(s, 1, "")

\* lines 255-267
VARIATIONS ==
    <<[standard |-> "hai", vars |-> {"he", "hein", "hey"}],
      [standard |-> "nahi", vars |-> {"nhi", "nahin", "nay", "naa"}],
      [standard |-> "kya", vars |-> {"kia", "kiya"}],
      [standard |-> "aur", vars |-> {"or", "arr"}],
      [standard |-> "bahut", vars |-> {"bohot", "bhot", "bohut"}],
      [standard |-> "pyaar", vars |-> {"pyar", "piyar"}],
      [standard |-> "karna", vars |-> {"krna"}],
      [standard |-> "hona", vars |-> {"hna"}],
      [standard |-> "jana", vars |-> {"jna"}],
      [standard |-> "dena", vars |-> {"dna"}],
      [standard |-> "lena", vars |-> {"lna"}]>>

\* lines 270-275, from entry k of the table on
RECURSIVE LookupVariation(_, _)
LookupVariation(word, k) ==
    IF k > Len(VARIATIONS) THEN word
    ELSE IF lower(word) \in VARIATIONS[k].vars THEN VARIATIONS[k].standard
    ELSE LookupVariation(word, k + 1)

\* mutant: the word is looked up as written, not lowercased
_normalize_hinglish_word_Exact(word) ==
    IF \E k \in 1..Len(VARIATIONS) : word \in VARIATIONS[k].vars
    THEN LookupVariation(word, 1) ELSE word

_normalize_hinglish_word(word) == LookupVariation(word, 1)

\* re.search(r'[\u0900-\u097F]', word)
HasDevanagari(word) == \E i \in 1..Len(word) : Ch(word, i) \in Devanagari

\* lines 240-248: the word appended for one word of the text
ProcessWord(word) ==
    IF HasDevanagari(word) THEN word ELSE _normalize_hinglish_word(word)

_handle_code_mixed(s) ==
    Join([k \in 1..Len(split(s)) |-> ProcessWord(split(s)[k])], " ")

(***************************************************************************)
(* lyric_tokenizer.py: multilingual_cleaners and the steps it calls.       *)
(***************************************************************************)
\* str.replace(old, new)
RECURSIVE ReplaceFrom(_, _, _, _, _)
ReplaceFrom(s, i, old, new, acc) ==
    IF i > Len(s) THEN acc
    ELSE IF StartsAt(s, i, old) THEN ReplaceFrom(s, i + Len(old), old, new, acc \o new)
    ELSE ReplaceFrom(s, i + 1, old, new, acc \o Ch(s, i))

replace(s, old, new) == ReplaceFrom(s, 1, old, new, "")

\* mutant: the text keeps its case
lowercase_Identity(s) == s

lowercase(s) == lower(s)

\* lines 56-76
ABBREVIATIONS ==
    <<[abbr |-> "dr", repl |-> "doctor"], [abbr |-> "mr", repl |-> "mister"],
      [abbr |-> "mrs", repl |-> "missus"], [abbr |-> "prof", repl |-> "professor"],
      [abbr |-> "govt", repl |-> "government"], [abbr |-> "pvt", repl |-> "private"],
      [abbr |-> "sr", repl |-> "senior"], [abbr |-> "jr", repl |-> "junior"],
      [abbr |-> "dept", repl |-> "department"], [abbr |-> "asst", repl |-> "assistant"],
      [abbr |-> "eng", repl |-> "engineer"], [abbr |-> "min", repl |-> "minute"],
      [abbr |-> "sec", repl |-> "second"], [abbr |-> "hrs", repl |-> "hours"]>>

\* re.sub of the pattern \b<abbr>\. (re.IGNORECASE)
RECURSIVE SubAbbreviation(_, _, _, _, _)
SubAbbreviation(s, i, abbr, repl, acc) ==
    IF i > Len(s) THEN acc
    ELSE IF /\ Boundary(s, i)
            /\ lower(Slice(s, i, i + Len(abbr))) = abbr \o "."
         THEN SubAbbreviation(s, i + Len(abbr) + 1, abbr, repl, acc \o repl)
         ELSE SubAbbreviation(s, i + 1, abbr, repl, acc \o Ch(s, i))

RECURSIVE ExpandAbbreviations(_, _)
ExpandAbbreviations(s, k) ==
    IF k > Len(ABBREVIATIONS) THEN s
    ELSE ExpandAbbreviations(
             SubAbbreviation(s, 1, ABBREVIATIONS[k].abbr, ABBREVIATIONS[k].repl, ""),
             k + 1)

expand_abbreviations_multilingual(s) == ExpandAbbreviations(s, 1)

\* lines 85-102
SYMBOLS ==
    <<[sym |-> "&", repl |-> " and "], [sym |-> "@", repl |-> " at "],
      [sym |-> "%", repl |-> " percent "], [sym |-> "#", repl |-> " number "],
      [sym |-> "$", repl |-> " dollar "], [sym |-> INDIAN_RUPEE_SIGN, repl |-> " rupees "],
      [sym |-> POUND_SIGN, repl |-> " pound "],
      [sym |-> DEGREE_SIGN, repl |-> " degree "],
      [sym |-> "+", repl |-> " plus "], [sym |-> "=", repl |-> " equal "],
      [sym |-> "~", repl |-> " approximately "]>>

\* lines 106-108
RECURSIVE ExpandSymbols(_, _)
ExpandSymbols(s, k) ==
    IF k > Len(SYMBOLS) THEN s
    ELSE ExpandSymbols(replace(replace(s, SYMBOLS[k].sym, SYMBOLS[k].repl), "  ", " "),
                       k + 1)

expand_symbols_multilingual(s) == Strip(ExpandSymbols(s, 1))

\* re.sub(r"\s+", " ", s)
RECURSIVE CollapseRuns(_, _, _)
CollapseRuns(s, i, acc) ==
    IF i > Len(s) THEN acc
    ELSE IF Ch(s, i) \in Space THEN CollapseRuns(s, RunEnd(s, i, Space), acc \o " ")
    ELSE CollapseRuns(s, i + 1, acc \o Ch(s, i))

collapse_whitespace(s) == CollapseRuns(s, 1, "")

(***************************************************************************)
(* State machine: LyricTokenizer.encode up to the vocabulary lookup, then  *)
(* the string substitutions of LyricTokenizer.decode.                      *)
(***************************************************************************)
Pieces ==
    {"22nd", "1st", "4th", INDIAN_RUPEE_SIGN \o "5", ".5", "hey", "Hey", "hewa",
     "he" \o DEVANAGARI_HA \o " ", " ", "\t", "[STOP]", "dr.", "&"}

LyricArgs == Texts(Pieces, MaxPieces)

Frame == UNCHANGED <<entry, arg, ntext, out, pass, first, faults, canon>>

\* encode, line 278-279: the length check only prints; preprocess_text starts
CallEncode ==
    /\ pc = "idle"
    /\ \E a \in LyricArgs :
        entry' = "encode" /\ arg' = a /\ text' = a
    /\ pc' = "hinglish_cleaners"
    /\ UNCHANGED <<ntext, out, pass, first, faults, canon>>

\* preprocess_text, line 227
HinglishCleaners ==
    /\ pc = "hinglish_cleaners"
    /\ text' = hinglish_cleaners(text) /\ pc' = "code_mixed"
    /\ Frame

\* preprocess_text, line 229
HandleCodeMixed ==
    /\ pc = "code_mixed"
    /\ text' = _handle_code_mixed(text) /\ pc' = "multilingual_cleaners"
    /\ Frame

\* multilingual_cleaners, lines 182-183
QuotesAndCase ==
    /\ pc = "multilingual_cleaners"
    /\ text' = lowercase(replace(text, "\"", "")) /\ pc' = "expand_numbers"
    /\ Frame

\* lines 184-185 and 157-158: the try block calls expand_numbers_multilingual,
\* which calls TextNorm.__call__ (hi_num2words.py lines 205-208)
ExpandNumbers ==
    /\ pc = "expand_numbers"
    /\ ntext' = text
    /\ IF text = ""
       THEN pc' = "abbreviations" /\ text' = GenericExpanders(text)
       ELSE pc' = "ordinals" /\ text' = text
    /\ UNCHANGED <<entry, arg, out, pass, first, faults, canon>>

\* a try block of multilingual_cleaners: the step's result is assigned when
\* the step returns; when it is left by an exception (the bare except catches
\* every one, also those raised from outside such as MemoryError) the
\* assignment does not happen
TryStep(here, name, result, next) ==
    /\ pc = here
    /\ \E raised \in BOOLEAN :
        IF raised
        THEN faults' = faults \cup {name} /\ text' = text
        ELSE faults' = faults /\ text' = result
    /\ pc' = next
    /\ UNCHANGED <<entry, arg, ntext, out, pass, first, canon>>

\* lines 188-191
ExpandAbbreviationsStep ==
    TryStep("abbreviations", "abbreviations", expand_abbreviations_multilingual(text),
            "symbols")

\* lines 192-195
ExpandSymbolsStep ==
    TryStep("symbols", "symbols", expand_symbols_multilingual(text), "collapse")

\* lines 196-197 and 232: the last step; preprocess_text returns to encode
CollapseWhitespace ==
    /\ pc = "collapse"
    /\ text' = collapse_whitespace(text) /\ canon' = text' /\ pc' = "markers"
    /\ UNCHANGED <<entry, arg, ntext, out, pass, first, faults>>

\* encode, lines 280-281
EncodeMarkers ==
    /\ pc = "markers"
    /\ text' = replace("[hi]" \o text, " ", "[SPACE]") /\ pc' = "decode"
    /\ Frame

\* decode, lines 287-290, on the symbols encode produced
DecodeMarkers ==
    /\ pc = "decode"
    /\ out' = Ok(replace(replace(replace(text, " ", ""), "[SPACE]", " "), "[STOP]", ""))
    /\ pc' = "done"
    /\ UNCHANGED <<entry, arg, text, ntext, pass, first, faults, canon>>

Next ==
    \/ CallEncode
    \/ HinglishCleaners
    \/ HandleCodeMixed
    \/ QuotesAndCase
    \/ ExpandNumbers
    \/ Ordinals
    \/ Currencies
    \/ Decimals
    \/ Numbers
    \/ ExpandAbbreviationsStep
    \/ ExpandSymbolsStep
    \/ CollapseWhitespace
    \/ EncodeMarkers
    \/ DecodeMarkers

Spec == Idle /\ [][Next]_vars

(***************************************************************************)
(* Properties of the rewrite pipeline and the codec.                       *)
(***************************************************************************)
\* C6 as stated: for every canonical text T the pipeline produces, the
\* encode-side marker substitution followed by the decode-side substitution
\* yields exactly T.
C6_RoundTrip == Returned("encode", arg) => out = Ok(canon)

\* C6 as amended: the two substitutions yield T behind the language marker
\* "[hi]", which decode does not remove.
C6_RoundTripMarked == Returned("encode", arg) => out = Ok("[hi]" \o canon)

C6_Witness ==
    /\ Returned("encode", "[STOP]" \o INDIAN_RUPEE_SIGN \o "5")
    /\ canon = "[stop]paanch rupaye" /\ out = Ok("[hi][stop]paanch rupaye")

\* the pattern the numeral engine applies at each of its positions
PatternAt ==
    [p \in {"ordinals", "currency", "decimals", "numbers"} |->
        CASE p = "ordinals" -> "ORDINAL" [] p = "currency" -> "CURRENCY"
          [] p = "decimals" -> "DECIMAL" [] p = "numbers" -> "NUMBER"]

\* the numeral expansion of the pipeline fails in the step about to be taken
NumeralStepFails ==
    /\ entry = "encode" /\ pc \in DOMAIN PatternAt
    /\ PatternSub(PatternAt[pc], ntext).err # "none"

\* C8: when one of the three expansion steps of multilingual_cleaners fails,
\* the failure does not reach the caller, the text stays what it was before
\* the step started, and the steps after it, up to the whitespace collapsing,
\* run in their order on that text.
C8_FaultIsolated ==
    /\ [][NumeralStepFails => text' = text /\ out' = out /\ pc' = "abbreviations"]_vars
    /\ [][(entry = "encode" /\ pc \in DOMAIN PatternAt /\ pc' \in DOMAIN PatternAt)
              => text' = text]_vars
    /\ [][faults' # faults
              => /\ text' = text /\ out' = out
                 /\ \E name \in faults' \ faults :
                        pc' = CASE name = "numbers" -> "abbreviations"
                                [] name = "abbreviations" -> "symbols"
                                [] name = "symbols" -> "collapse"]_vars
    /\ [][(pc = "abbreviations" => pc' = "symbols")
          /\ (pc = "symbols" => pc' = "collapse")
          /\ (pc = "collapse" => pc' = "markers" /\ canon' = collapse_whitespace(text))]_vars

\* the numeral expansion failed on ".5", and the symbol expansion and the
\* whitespace collapsing ran on the text it left
C8_Witness ==
    /\ Returned("encode", ".5&")
    /\ faults = {"numbers"} /\ canon = ".5 and" /\ out.err = "none"

\* the canonical spelling the table lists for a variant
CanonicalOf(v) ==
    VARIATIONS[CHOOSE k \in 1..Len(VARIATIONS) : v \in VARIATIONS[k].vars].standard

ListedVariants == UNION {VARIATIONS[k].vars : k \in 1..Len(VARIATIONS)}

\* C9 as stated: _handle_code_mixed keeps the number and order of the
\* whitespace-separated tokens, leaves every token with a Devanagari
\* character unchanged, replaces every other token that is a listed variant
\* by its canonical spelling and leaves the rest unchanged.
C9_CodeMixed ==
    [][pc = "code_mixed"
         => /\ Len(split(text')) = Len(split(text))
            /\ \A k \in 1..Len(split(text)) :
                 split(text')[k] =
                     IF HasDevanagari(split(text)[k]) THEN split(text)[k]
                     ELSE IF split(text)[k] \in ListedVariants
                          THEN CanonicalOf(split(text)[k])
                          ELSE split(text)[k]]_vars

\* C9 as amended: the same, with a token counting as a listed variant when
\* its lowercased form is listed.
C9_CodeMixedFolded ==
    [][pc = "code_mixed"
         => /\ Len(split(text')) = Len(split(text))
            /\ \A k \in 1..Len(split(text)) :
                 split(text')[k] =
                     IF HasDevanagari(split(text)[k]) THEN split(text)[k]
                     ELSE IF lower(split(text)[k]) \in ListedVariants
                          THEN CanonicalOf(lower(split(text)[k]))
                          ELSE split(text)[k]]_vars

\* a Devanagari token and a variant written with a capital went through
C9_Witness ==
    /\ entry = "encode" /\ pc = "multilingual_cleaners"
    /\ arg = "he" \o DEVANAGARI_HA \o " Hey"
    /\ text = "he" \o DEVANAGARI_HA \o " hai"

\* the text without its ordinal and currency spans
RECURSIVE WithoutSpans(_, _, _)
WithoutSpans(s, i, acc) ==
    IF i > Len(s) THEN acc
    ELSE IF ORDINAL_PATTERN(s, i) > 0 THEN WithoutSpans(s, ORDINAL_PATTERN(s, i), acc)
    ELSE IF CURRENCY_PATTERN(s, i) > 0 THEN WithoutSpans(s, CURRENCY_PATTERN(s, i), acc)
    ELSE WithoutSpans(s, i + 1, acc \o Ch(s, i))

\* every digit of the text lies in an ordinal or a currency span
DigitsInSpans(s) == HasDigit(s) /\ ~HasDigit(WithoutSpans(s, 1, ""))

\* C10: in preprocess_text the ordinal and currency rules resolve their spans
\* before the bare-digit rule runs: no digit of such a span is left for the
\* bare-digit rule, and a text that is one ordinal span or one currency span
\* comes out as the ordinal or currency phrase, unchanged by later rules.
C10_SpansBeforeDigits ==
    /\ (entry = "encode" /\ pc = "numbers" /\ DigitsInSpans(arg)) => ~HasDigit(ntext)
    /\ (Returned("encode", arg) /\ ORDINAL_PATTERN(arg, 1) = Len(arg) + 1)
           => canon = normalize_ordinal(arg).val
    /\ (Returned("encode", arg) /\ CURRENCY_PATTERN(arg, 1) = Len(arg) + 1)
           => canon = normalize_currency(arg).val

(***************************************************************************)
(* What TextNorm.__call__ hands to normalize_number.                       *)
(***************************************************************************)
\* the strings the callback of pat passes to normalize_number for the match m
\* (hi_num2words.py lines 203, 189-191, 170 and 227)
CallArgs(pat, m) ==
    CASE pat = "ORDINAL" ->
             IF FilterDigits(m) \in DOMAIN ORDINAL_SUFFIXES THEN {}
             ELSE {FilterDigits(m)}
      [] pat = "CURRENCY" ->
             {Split(StripSymbols(m), ".")[1]}
             \cup (IF /\ Len(Split(StripSymbols(m), ".")) > 1
                      /\ Split(StripSymbols(m), ".")[2] # "0"
                      /\ normalize_number(Split(StripSymbols(m), ".")[1]).err = "none"
                   THEN {Split(StripSymbols(m), ".")[2]} ELSE {})
      [] pat = "DECIMAL" -> {Split(m, ".")[1]}
      [] pat = "NUMBER" -> {m}

\* the strings passed to normalize_number while Pattern.sub of pat runs over
\* s from index i on; the substitution ends with the first callback that raises
RECURSIVE PassedFrom(_, _, _)
PassedFrom(pat, s, i) ==
    IF i > Len(s) THEN {}
    ELSE IF MatchEnd(pat, s, i) = 0 THEN PassedFrom(pat, s, i + 1)
    ELSE CallArgs(pat, Slice(s, i, MatchEnd(pat, s, i) - 1))
         \cup (IF Callback(pat, Slice(s, i, MatchEnd(pat, s, i) - 1)).err # "none"
               THEN {}
               ELSE PassedFrom(pat, s, MatchEnd(pat, s, i)))

Passed(pat, s) == PassedFrom(pat, s, 1)

\* C11: every string that TextNorm.__call__ passes to normalize_number, in
\* each of its four rules, is a non-empty string of digits, and so no call of
\* TextNorm ends with a failed conversion.
C11_OnlyDigitStrings ==
    /\ (entry = "TextNorm" /\ pc \in DOMAIN PatternAt)
           => \A x \in Passed(PatternAt[pc], ntext) : Len(x) > 0 /\ AllDigits(x)
    /\ (entry = "TextNorm" /\ pc = "done") => out.err = "none"

(***************************************************************************)
(* The decomposition of normalize_number (hi_num2words.py lines 115-160),  *)
(* call by call: what each call divides, recurses on and looks up.         *)
(***************************************************************************)
\* the value of num when the code reaches scale k (k = Len(SCALES) + 1: the
\* hundreds); lines 124, 133 and 142 reduce it only under a positive count
RECURSIVE Rem(_, _)
Rem(num, k) ==
    IF k = 1 THEN num
    ELSE IF Rem(num, k - 1) \div SCALES[k - 1].unit > 0
         THEN Rem(num, k - 1) % SCALES[k - 1].unit
         ELSE Rem(num, k - 1)

\* crores, lakhs, thousands (lines 118, 127, 136)
Count(num, k) == Rem(num, k) \div SCALES[k].unit

\* lines 122-123, 131-132, 140-141: the count is rendered by a recursive call
Recurses(num, k) ==
    Count(num, k) > 0 /\ str(Count(num, k)) \notin DOMAIN HINDI_NUMBERS

\* line 145
HundredsDigit(num) == Rem(num, Len(SCALES) + 1) \div 100

\* num at line 151, after line 148
LastTwo(num) ==
    IF HundredsDigit(num) > 0 THEN Rem(num, Len(SCALES) + 1) % 100
    ELSE Rem(num, Len(SCALES) + 1)

\* the call gets past lines 109-113
Decomposes(num) == num # 0 /\ ~DirectEntry(num)

\* mutant: the remainder is split without the test of line 152
SplitsTwoDigits_Always(num) == LastTwo(num) > 0

\* lines 151-155: the remainder is split into a decade and a ones digit
SplitsTwoDigits(num) ==
    LastTwo(num) > 0 /\ str(LastTwo(num)) \notin DOMAIN HINDI_NUMBERS

\* lines 155-156: tens and ones
DecadeKey(num) == (LastTwo(num) \div 10) * 10
OnesKey(num) == LastTwo(num) % 10

\* the arguments of every call of normalize_number that the call on num makes,
\* itself included
RECURSIVE Calls(_)
Calls(num) ==
    {num} \cup (IF Decomposes(num)
                THEN UNION {Calls(Count(num, k)) :
                                k \in {j \in 1..Len(SCALES) : Recurses(num, j)}}
                ELSE {})

\* the keys with which the call on num subscripts HINDI_NUMBERS
\* (lines 110, 113, 121, 130, 139, 147, 153, 158, 160)
LookedUp(num) ==
    IF num = 0 THEN {"0"}
    ELSE IF DirectEntry(num) THEN {str(num)}
    ELSE {str(Count(num, k)) :
              k \in {j \in 1..Len(SCALES) : Count(num, j) > 0 /\ ~Recurses(num, j)}}
         \cup (IF HundredsDigit(num) > 0 THEN {str(HundredsDigit(num))} ELSE {})
         \cup (IF LastTwo(num) > 0 /\ ~SplitsTwoDigits(num)
               THEN {str(LastTwo(num))} ELSE {})
         \cup (IF SplitsTwoDigits(num) /\ DecadeKey(num) > 0
               THEN {str(DecadeKey(num))} ELSE {})
         \cup (IF SplitsTwoDigits(num) /\ OnesKey(num) > 0
               THEN {str(OnesKey(num))} ELSE {})

\* C12: normalize_number returns for every non-negative integer and
\* subscripts the lexicon only with keys it has: in every call it makes, each
\* recursive call is on a quotient strictly smaller than the call's argument,
\* the hundreds digit looked up is in 1..9, and a two-digit remainder that is
\* split is looked up under a decade in {30, 40, ..., 90} and a ones digit
\* in 1..9.
C12_KeysExist ==
    (Returned("normalize_number", arg) /\ IntLiteral(arg))
        => /\ out.err = "none"
           /\ \A n \in Calls(IntOf(arg)) :
                /\ LookedUp(n) \subseteq DOMAIN HINDI_NUMBERS
                /\ \A k \in 1..Len(SCALES) :
                       (Decomposes(n) /\ Recurses(n, k))
                           => Count(n, k) >= 0 /\ Count(n, k) < n
                /\ (Decomposes(n) /\ HundredsDigit(n) > 0) => HundredsDigit(n) \in 1..9
                /\ (Decomposes(n) /\ SplitsTwoDigits(n))
                       => /\ DecadeKey(n) \in {30, 40, 50, 60, 70, 80, 90}
                          /\ OnesKey(n) \in 1..9

\* a crore count above 99 went through a recursive call that itself
\* decomposed into a hundreds digit and a remainder, and a lakh count through
\* one that split its two digits
C12_Witness ==
    /\ Returned("normalize_number", "1234567890")
    /\ 123 \in Calls(IntOf(arg)) /\ Decomposes(123) /\ HundredsDigit(123) = 1
    /\ 45 \in Calls(IntOf(arg)) /\ SplitsTwoDigits(45)
    /\ DecadeKey(45) = 40 /\ OnesKey(45) = 5
    /\ out = Ok("ek sau teyees crore chalees paanch lakh saath saat hazaar aath sau navve")

\* the main and the decimal part of a currency amount (lines 182-184), the
\* decimal part "" when the amount has none
MainPart(amount_str) == Split(StripSymbols(amount_str), ".")[1]
DecimalPart(amount_str) ==
    IF Len(Split(StripSymbols(amount_str), ".")) > 1
    THEN Split(StripSymbols(amount_str), ".")[2] ELSE ""

\* the decimal part is absent or is a digit string of value zero
ZeroDecimal(amount_str) ==
    AllDigits(DecimalPart(amount_str)) /\ IntOf(DecimalPart(amount_str)) = 0

\* C13: for a currency amount whose decimal part has the value zero ("00", or
\* no decimal part at all), normalize_currency returns only the cardinal of
\* the main part followed by the main-unit word; the decimal-unit phrase is
\* appended only when the decimal part is non-zero.
C13_ZeroDecimal ==
    (/\ Returned("normalize_currency", arg)
     /\ IntLiteral(MainPart(arg)) /\ ZeroDecimal(arg))
        => out = Ok(normalize_number(MainPart(arg)).val \o " "
                    \o CURRENCY_UNITS["INR"].main)

\* C14: the text that multilingual_cleaners returns holds no decimal digit:
\* every digit span of its input was turned into words, by the numeral engine
\* or by the generic expanders that run after it.
C14_NoDigitLeft ==
    (entry = "encode" /\ pc \in {"markers", "decode", "done"}) => ~HasDigit(canon)

====
